---- MODULE Spec2Model ----
(***************************************************************************)
(* A model of the MARC-21 reader of package marc21 (src/marc21.go, first   *)
(* variant, lines 1-400): the record framer readRecord, Reader.Next,       *)
(* NewMarcRecord with its leader validation and directory decoding, and    *)
(* the field and subfield queries of MarcRecord and VariableField.         *)
(*                                                                         *)
(* Bytes are the integers 0..255.  A Go byte slice is a record             *)
(* [nil, bytes, spare]: its len(s) bytes and the cap(s)-len(s) bytes that  *)
(* follow them in its array.  An index s[i] is checked against len(s), a   *)
(* slice expression s[a:b] against cap(s).  Slice index i of the code is   *)
(* sequence index i+1 here.                                                *)
(* A run-time panic of the code (index or slice bounds out of range) is    *)
(* an outcome of its own, "panic".                                         *)
(***************************************************************************)
EXTENDS Integers, Sequences, FiniteSets, TLC

\* ------------------------------------------------------------ constants

delimiter == 31

fieldTerminator == 30

recordTerminator == 29

leaderSize == 24

maxRecordSize == 99999

\* ---------------------------------------------------------------- bytes

Min(a, b) == IF a <= b THEN a ELSE b

\* A nil slice, a non-nil slice holding the bytes b with no capacity to
\* spare (make([]byte, n), and a slice the caller only reads by index),
\* and the bytes of the array of a slice, up to its capacity.
NilSlice == [nil |-> TRUE, bytes |-> <<>>, spare |-> <<>>]

Slice(b) == [nil |-> FALSE, bytes |-> b, spare |-> <<>>]

Array(s) == s.bytes \o s.spare

\* n zero bytes: the content of a buffer that make([]byte, n) returns.
RECURSIVE Zeros(_)
Zeros(n) == IF n <= 0 THEN <<>> ELSE <<0>> \o Zeros(n - 1)

\* decodeDecimal: result = 10*result + int(n[i]-'0'), the subtraction done
\* on bytes (it wraps modulo 256), the sum on a 64-bit int (no overflow
\* for the at most five bytes it is given).
RECURSIVE decodeDecimalFrom(_, _, _)
decodeDecimalFrom(n, i, result) ==
    IF i > Len(n) THEN result
    ELSE decodeDecimalFrom(n, i + 1, (10 * result) + ((n[i] + 256 - 48) % 256))

decodeDecimal(n) == decodeDecimalFrom(n, 1, 0)

\* ------------------------------------------------------------ the framer

\* r.Read(p) on the stream's reader, len(p) = want > 0, with pos bytes of the
\* stream already consumed.  An io.Reader delivers between 1 and len(p)
\* bytes with a nil error while bytes remain, and (0, io.EOF) at the end;
\* the reader here delivers at most chunk bytes a call (strings.Reader, the
\* reader of the tests, delivers all that is asked for while bytes remain).
Read(s, pos, chunk, want) ==
    IF Len(s) - pos = 0
    THEN [n |-> 0, e |-> "EOF"]
    ELSE [n |-> Min(want, Min(chunk, Len(s) - pos)), e |-> "nil"]

\* readRecord.  The byte counts that Read returns are dropped by the code:
\* tmp and result keep their zero bytes where Read delivered nothing.  The
\* buffer result is rlen bytes long; only its last byte is inspected, so it
\* is built in full only when it is returned (then Read filled all of it).
readRecord(s, pos, chunk) ==
    LET r1   == Read(s, pos, chunk, 5)
        tmp  == SubSeq(s, pos + 1, pos + r1.n) \o Zeros(5 - r1.n)
        p1   == pos + r1.n
        rlen == decodeDecimal(tmp)
        r2   == Read(s, p1, chunk, rlen - 5)
        p2   == p1 + r2.n
        last == IF r2.n = rlen - 5 THEN s[p2] ELSE 0
    IN  IF r1.e # "nil"
        THEN [n |-> 0, rec |-> NilSlice, e |-> r1.e, pos |-> pos]
        ELSE IF rlen < leaderSize + 2 \/ rlen > maxRecordSize
        THEN [n |-> 0, rec |-> NilSlice, e |-> "errInvalidLength", pos |-> p1]
        ELSE IF r2.e # "nil"
        THEN [n |-> 0, rec |-> NilSlice, e |-> r2.e, pos |-> p1]
        ELSE IF last # recordTerminator
        THEN [n |-> 0, rec |-> NilSlice, e |-> "errNoRecordTerminator", pos |-> p2]
        ELSE [n |-> rlen, rec |-> Slice(tmp \o SubSeq(s, p1 + 1, p2)),
              e |-> "nil", pos |-> p2]

\* ------------------------------------------------------------ the leader

\* marc21LeaderValues: the allowed bytes of each checked leader position.
marc21LeaderValues ==
    << [offset |-> 5,  values |-> {97, 99, 100, 110, 112}],
       [offset |-> 6,  values |-> {97, 99, 100, 101, 102, 103, 105, 106,
                                   107, 109, 111, 112, 114, 116}],
       [offset |-> 7,  values |-> {97, 98, 99, 100, 105, 109, 115}],
       [offset |-> 8,  values |-> {32, 97}],
       [offset |-> 9,  values |-> {32, 97}],
       [offset |-> 10, values |-> {50}],
       [offset |-> 11, values |-> {50}],
       [offset |-> 17, values |-> {32, 49, 50, 51, 52, 53, 55, 56, 117, 122}],
       [offset |-> 18, values |-> {32, 97, 99, 105, 117}],
       [offset |-> 19, values |-> {32, 97, 98, 99}],
       [offset |-> 20, values |-> {52}],
       [offset |-> 21, values |-> {53}],
       [offset |-> 22, values |-> {48}],
       [offset |-> 23, values |-> {48}] >>

\* validLeader: the first rule, in table order, that the leader breaks
\* makes it invalid.
RECURSIVE validLeaderFrom(_, _)
validLeaderFrom(leader, i) ==
    IF i > Len(marc21LeaderValues) THEN TRUE
    ELSE IF leader[marc21LeaderValues[i].offset + 1] \notin marc21LeaderValues[i].values
    THEN FALSE
    ELSE validLeaderFrom(leader, i + 1)

\* A faulty validLeader: the loop skips the first rule of the table.
validLeader_SkipsFirst(leader) == validLeaderFrom(leader, 2)

validLeader(leader) == validLeaderFrom(leader, 1)

\* --------------------------------------------------------- the directory

\* m[tag] = append(m[tag], loc) on a map held as a function on its keys.
MapAppend(m, tag, loc) ==
    IF tag \in DOMAIN m
    THEN [m EXCEPT ![tag] = Append(@, loc)]
    ELSE [t \in (DOMAIN m) \cup {tag} |-> IF t = tag THEN <<loc>> ELSE m[t]]

\* A faulty loop of decodeDirectory: the two numbers of an entry
\* are taken one for the other.
RECURSIVE decodeDirectoryFrom_Swapped(_, _, _, _)
decodeDirectoryFrom_Swapped(record, baseAddress, i, m) ==
    IF i >= Len(record.bytes) THEN [panic |-> TRUE, m |-> m]
    ELSE IF record.bytes[i + 1] = fieldTerminator THEN [panic |-> FALSE, m |-> m]
    ELSE IF i + 12 > Len(Array(record)) THEN [panic |-> TRUE, m |-> m]
    ELSE decodeDirectoryFrom_Swapped(record, baseAddress, i + 12,
            MapAppend(m, SubSeq(Array(record), i + 1, i + 3),
                [offset |-> baseAddress + decodeDecimal(SubSeq(Array(record), i + 4, i + 7)),
                 length |-> decodeDecimal(SubSeq(Array(record), i + 8, i + 12))]))

\* The loop of decodeDirectory at index i.  record[i] panics at i >= len;
\* the slices record[i:i+3], record[i+3:i+7], record[i+7:i+12] panic when
\* i+12 exceeds the capacity, which for the buffer of readRecord is len.
RECURSIVE decodeDirectoryFrom(_, _, _, _)
decodeDirectoryFrom(record, baseAddress, i, m) ==
    IF i >= Len(record.bytes) THEN [panic |-> TRUE, m |-> m]
    ELSE IF record.bytes[i + 1] = fieldTerminator THEN [panic |-> FALSE, m |-> m]
    ELSE IF i + 12 > Len(Array(record)) THEN [panic |-> TRUE, m |-> m]
    ELSE decodeDirectoryFrom(record, baseAddress, i + 12,
            MapAppend(m, SubSeq(Array(record), i + 1, i + 3),
                [offset |-> baseAddress + decodeDecimal(SubSeq(Array(record), i + 8, i + 12)),
                 length |-> decodeDecimal(SubSeq(Array(record), i + 4, i + 7))]))

\* A faulty decodeDirectory: the base address is not added.
decodeDirectory_NoBase(record) == decodeDirectoryFrom(record, 0, 24, <<>>)

decodeDirectory(record) ==
    decodeDirectoryFrom(record, decodeDecimal(SubSeq(Array(record), 13, 17)), 24, <<>>)

\* ------------------------------------------------------------ the record

NilRecord == [nil |-> TRUE]

\* The switch on m.CharacterEncoding.
TranscoderFor(enc) == IF enc = 32 THEN "marc8Transcoder" ELSE "utf8Transcoder"

\* NewMarcRecord on a slice of at least 24 bytes (readRecord returns at
\* least 26): the record and the error it returns, or a panic out of
\* decodeDirectory.
NewMarcRecord(rawData, validate, offset) ==
    IF validate /\ ~validLeader(rawData.bytes)
    THEN [panic |-> FALSE, m |-> NilRecord, err |-> "errInvalidLeader"]
    ELSE LET d == decodeDirectory(rawData)
         IN  IF d.panic
             THEN [panic |-> TRUE, m |-> NilRecord, err |-> "panic"]
             ELSE [panic |-> FALSE,
                   m |-> [nil |-> FALSE,
                          RawRecord |-> rawData,
                          Offset |-> offset,
                          Status |-> rawData.bytes[6],
                          Type |-> rawData.bytes[7],
                          BibLevel |-> rawData.bytes[8],
                          CharacterEncoding |-> rawData.bytes[9],
                          EncodingLevel |-> rawData.bytes[18],
                          CatalogingForm |-> rawData.bytes[19],
                          MultipartLevel |-> rawData.bytes[20],
                          Directory |-> d.m,
                          transcoder |-> TranscoderFor(rawData.bytes[9])],
                   err |-> "nil"]

\* ----------------------------------------------------------- the queries

\* VariableField{}: no tag, no occurrences, no transcoder.
EmptyField == [Tag |-> <<>>, rawData |-> <<>>, transcoder |-> "nil"]

\* IsControlFieldTag, on a tag of at least two bytes.
IsControlFieldTag(tag) == tag[1] = 48 /\ tag[2] = 48

\* The loop of GetRawField from entry index i: m.RawRecord[start:end]
\* panics when end exceeds the capacity of RawRecord (its length, for the
\* buffer of readRecord), and reaches into the bytes that follow the
\* record in its array otherwise; start <= end always, decodeDecimal
\* being >= 0.
RECURSIVE GetRawFieldFrom(_, _, _, _)
GetRawFieldFrom(m, entry, i, result) ==
    IF i > Len(entry) THEN [panic |-> FALSE, rawData |-> result]
    ELSE LET start == entry[i].offset
             end   == entry[i].offset + entry[i].length
         IN  IF end > Len(Array(m.RawRecord))
             THEN [panic |-> TRUE, rawData |-> <<>>]
             ELSE GetRawFieldFrom(m, entry, i + 1,
                      Append(result, SubSeq(Array(m.RawRecord), start + 1, end)))

GetRawField(m, tag) ==
    IF tag \notin DOMAIN m.Directory
    THEN [panic |-> FALSE, field |-> EmptyField]
    ELSE LET r == GetRawFieldFrom(m, m.Directory[tag], 1, <<>>)
         IN  IF r.panic
             THEN [panic |-> TRUE, field |-> EmptyField]
             ELSE [panic |-> FALSE,
                   field |-> [Tag |-> tag, rawData |-> r.rawData,
                              transcoder |-> m.transcoder]]

ValueCount(f) == Len(f.rawData)

\* GetControlField: a panic out of GetRawField goes through it, and
\* cf[:len(cf)-1] panics on an occurrence of length 0.
GetControlField(m, tag) ==
    IF ~IsControlFieldTag(tag)
    THEN [panic |-> FALSE, s |-> <<>>, err |-> "not a valid control field"]
    ELSE LET r == GetRawField(m, tag)
         IN  IF r.panic THEN [panic |-> TRUE, s |-> <<>>, err |-> "panic"]
             ELSE IF ValueCount(r.field) = 0
             THEN [panic |-> FALSE, s |-> <<>>, err |-> "nil"]
             ELSE IF ValueCount(r.field) > 1
             THEN [panic |-> FALSE, s |-> <<>>, err |-> "too many instances of control field"]
             ELSE LET cf == r.field.rawData[1]
                  IN  IF Len(cf) = 0
                      THEN [panic |-> TRUE, s |-> <<>>, err |-> "panic: cf[:len(cf)-1]"]
                      ELSE [panic |-> FALSE, s |-> SubSeq(cf, 1, Len(cf) - 1),
                            err |-> "nil"]

GetDataField(m, tag) ==
    IF IsControlFieldTag(tag)
    THEN [panic |-> FALSE, field |-> EmptyField, err |-> "not a data field"]
    ELSE LET r == GetRawField(m, tag)
         IN  IF r.panic
             THEN [panic |-> TRUE, field |-> EmptyField, err |-> "panic"]
             ELSE [panic |-> FALSE, field |-> r.field, err |-> "nil"]

\* The inner loop of GetNthRawSubfield, for rv[i] != delimiter &&
\* rv[i] != fieldTerminator { i++ }: the index it stops at, or -1 when
\* rv[i] runs past the end of rv (a panic).
RECURSIVE ScanData(_, _)
ScanData(rv, i) ==
    IF i >= Len(rv) THEN -1
    ELSE IF rv[i + 1] = delimiter \/ rv[i + 1] = fieldTerminator THEN i
    ELSE ScanData(rv, i + 1)

\* GetNthRawSubfield from the label delim, i being the index of a
\* delimiter: i++, the compare with sf, and the skipping loop, which
\* looks first at the byte that was compared with sf.
RECURSIVE AtDelim(_, _, _)
RECURSIVE SkipSubfield(_, _, _)
AtDelim(rv, sf, i) ==
    IF i + 1 >= Len(rv) THEN [panic |-> TRUE, raw |-> NilSlice]
    ELSE IF rv[i + 2] = sf
    THEN LET stop == ScanData(rv, i + 2)
         IN  IF stop = -1 THEN [panic |-> TRUE, raw |-> NilSlice]
             ELSE [panic |-> FALSE, raw |-> Slice(SubSeq(rv, i + 3, stop))]
    ELSE SkipSubfield(rv, sf, i + 1)

SkipSubfield(rv, sf, i) ==
    IF i >= Len(rv) THEN [panic |-> TRUE, raw |-> NilSlice]
    ELSE IF rv[i + 1] = delimiter THEN AtDelim(rv, sf, i)
    ELSE IF rv[i + 1] = fieldTerminator THEN [panic |-> FALSE, raw |-> NilSlice]
    ELSE SkipSubfield(rv, sf, i + 1)

\* GetNthRawSubfield(subfield, index), sf being subfield[0]:
\* f.rawData[index] panics on an index that is no occurrence, rv[2] on an
\* occurrence shorter than three bytes.
GetNthRawSubfield(f, sf, index) ==
    IF index >= Len(f.rawData) THEN [panic |-> TRUE, raw |-> NilSlice]
    ELSE LET rv == f.rawData[index + 1]
         IN  IF 2 >= Len(rv) THEN [panic |-> TRUE, raw |-> NilSlice]
             ELSE IF rv[3] = delimiter THEN AtDelim(rv, sf, 2)
             ELSE [panic |-> FALSE, raw |-> NilSlice]

\* utf8Transcoder and marc8Transcoder: both are string(bytes).
Transcode(transcoder, bytes) == bytes

GetNthSubfield(f, sf, index) ==
    LET r == GetNthRawSubfield(f, sf, index)
    IN  IF r.panic THEN [panic |-> TRUE, s |-> <<>>]
        ELSE IF ~r.raw.nil
        THEN [panic |-> FALSE, s |-> Transcode(f.transcoder, r.raw.bytes)]
        ELSE [panic |-> FALSE, s |-> <<>>]

\* ------------------------------------------------------------ the inputs

\* Bounds of the inputs.
MaxBody == 3

MaxRecords == 2

MaxIndex == 1

ShortChunk == 3

\* The w decimal digits of n, as ASCII bytes.
RECURSIVE Dec(_, _)
Dec(n, w) == IF w = 0 THEN <<>> ELSE Dec(n \div 10, w - 1) \o <<48 + (n % 10)>>

\* Leader positions 5-11 and 17-23 of the record of the tests: "nam a22"
\* and "7u 4500".
LeaderA == <<110, 97, 109, 32, 97, 50, 50>>

LeaderB == <<55, 117, 32, 52, 53, 48, 48>>

\* A record laid out as the format lays it out: the length, the leader,
\* the base address, the directory dir and what ends it, the field data
\* and what ends the record.
MkRecord(ldrA, ldrB, dir, dirEnd, data, tail) ==
    LET base  == leaderSize + Len(dir) + Len(dirEnd)
        total == base + Len(data) + Len(tail)
    IN  Dec(total, 5) \o ldrA \o Dec(base, 5) \o ldrB \o dir \o dirEnd \o data \o tail

DirEntry(tag, length, start) == tag \o Dec(length, 4) \o Dec(start, 5)

\* The directory of the fields fs (each [tag, body]), laid out one after
\* the other from the base address.
RECURSIVE DirOf(_, _)
DirOf(fs, start) ==
    IF fs = <<>> THEN <<>>
    ELSE DirEntry(Head(fs).tag, Len(Head(fs).body), start)
             \o DirOf(Tail(fs), start + Len(Head(fs).body))

RECURSIVE DataOf(_)
DataOf(fs) == IF fs = <<>> THEN <<>> ELSE Head(fs).body \o DataOf(Tail(fs))

FieldsRecord(ldrA, ldrB, fs) ==
    MkRecord(ldrA, ldrB, DirOf(fs, 0), <<fieldTerminator>>, DataOf(fs),
             <<recordTerminator>>)

T001 == <<48, 48, 49>>

T005 == <<48, 48, 53>>

T010 == <<48, 49, 48>>

T245 == <<50, 52, 53>>

T666 == <<54, 54, 54>>

QueryTags == {T001, T005, T010, T245, T666}

SubfieldCodes == {97, 98, 99}

Fld(tag, body) == [tag |-> tag, body |-> body]

\* The bodies of data fields: two indicators and every byte string of
\* at most MaxBody bytes over a delimiter, a terminator and two codes;
\* and longer ones, with data bytes 'x' and 'y'.
BodyAlphabet == {delimiter, fieldTerminator, 97, 98}

GeneratedBodies ==
    { <<48, 48>> \o s : s \in UNION { [1..n -> BodyAlphabet] : n \in 0..MaxBody } }

PickedBodies ==
    { <<48, 48, 31, 97, 120, 121, 30>>,
      <<48, 48, 31, 98, 120, 31, 97, 121, 30>>,
      <<48, 48, 31, 97, 120, 31, 97, 121, 30>>,
      <<48, 48, 120, 31, 97, 121, 30>>,
      <<48, 48, 31, 97, 120, 121>> }

BodyRecords ==
    { FieldsRecord(LeaderA, LeaderB, <<Fld(T245, b)>>) :
          b \in GeneratedBodies \cup PickedBodies }

\* Records of several fields: no field at all, control fields of one and
\* of no data byte, a repeated data field, a repeated control field.
RecMin == FieldsRecord(LeaderA, LeaderB, <<>>)

RecCtl == FieldsRecord(LeaderA, LeaderB, <<Fld(T001, <<55, 56, 30>>)>>)

RecTwo ==
    FieldsRecord(LeaderA, LeaderB,
        << Fld(T001, <<55, 56, 30>>),
           Fld(T245, <<48, 48, 31, 97, 120, 30>>),
           Fld(T245, <<48, 49, 31, 98, 121, 30>>) >>)

PlainRecords ==
    { RecMin, RecCtl, RecTwo,
      FieldsRecord(LeaderA, LeaderB, <<Fld(T001, <<55, 30>>)>>),
      FieldsRecord(LeaderA, LeaderB, <<Fld(T005, <<30>>)>>),
      FieldsRecord(LeaderA, LeaderB,
          <<Fld(T010, <<32, 32, 31, 97, 120, 30>>), Fld(T010, <<32, 32, 31, 98, 30>>)>>),
      FieldsRecord(LeaderA, LeaderB,
          <<Fld(T001, <<55, 30>>), Fld(T001, <<56, 30>>)>>) }

\* Directories that do not describe the field data: an entry past the end
\* of the record, an entry too long, a repeated control field with one
\* entry past the end, a length that is no number, an empty entry, a
\* directory with no terminator, a directory cut inside an entry.
\* A record whose entry for 245 denotes the six bytes that follow the
\* record.
RecBehind ==
    MkRecord(LeaderA, LeaderB,
        DirEntry(T001, 3, 0) \o DirEntry(T245, 6, 4),
        <<fieldTerminator>>, <<55, 56, 30>>, <<recordTerminator>>)

CorruptRecords ==
    { RecBehind,
      MkRecord(LeaderA, LeaderB,
          DirEntry(T001, 3, 0) \o DirEntry(T245, 6, 90),
          <<fieldTerminator>>, <<55, 56, 30>>, <<recordTerminator>>),
      MkRecord(LeaderA, LeaderB,
          DirEntry(T245, 9999, 0) \o DirEntry(T001, 3, 6),
          <<fieldTerminator>>, <<48, 48, 31, 97, 120, 30, 55, 56, 30>>,
          <<recordTerminator>>),
      MkRecord(LeaderA, LeaderB,
          DirEntry(T001, 2, 0) \o DirEntry(T001, 2, 50),
          <<fieldTerminator>>, <<55, 30>>, <<recordTerminator>>),
      MkRecord(LeaderA, LeaderB,
          T245 \o <<32, 32, 32, 54>> \o Dec(0, 5),
          <<fieldTerminator>>, <<48, 48, 31, 97, 120, 30>>, <<recordTerminator>>),
      MkRecord(LeaderA, LeaderB,
          DirEntry(T001, 0, 0) \o DirEntry(T245, 6, 0),
          <<fieldTerminator>>, <<48, 48, 31, 97, 120, 30>>, <<recordTerminator>>),
      MkRecord(LeaderA, LeaderB,
          DirEntry(T245, 6, 0),
          <<>>, <<48, 48, 31, 97, 120, 30>>, <<recordTerminator>>),
      MkRecord(LeaderA, LeaderB,
          DirEntry(T245, 6, 0),
          <<48, 48, 49>>, <<48, 48, 31, 97, 120, 30>>, <<recordTerminator>>),
      MkRecord(LeaderA, LeaderB,
          DirEntry(T245, 6, 0) \o Dec(0, 6),
          <<fieldTerminator>>, <<48, 48, 31, 97, 120, 30>>, <<recordTerminator>>) }

\* Leaders: each checked position in turn holding a byte outside its set
\* ('x', and a byte above 127 at position 5), and allowed bytes other
\* than those of LeaderA and LeaderB.
SetByte(s, i, b) == [s EXCEPT ![i] = b]

LeaderPairs ==
    { <<SetByte(LeaderA, i, 120), LeaderB>> : i \in 1..7 }
        \cup { <<LeaderA, SetByte(LeaderB, i, 120)>> : i \in 1..7 }
        \cup { <<SetByte(LeaderA, 1, 200), LeaderB>>,
               <<SetByte(LeaderA, 4, 97), LeaderB>>,
               <<<<99, 99, 115, 32, 32, 50, 50>>, <<32, 97, 97, 52, 53, 48, 48>>>>,
               <<SetByte(LeaderA, 1, 120), SetByte(LeaderB, 2, 120)>> }

LeaderRecords ==
    { FieldsRecord(l[1], l[2], <<Fld(T001, <<55, 56, 30>>)>>) : l \in LeaderPairs }

\* The record of the tests (fullRecord of src/marc21_test.go).
FullRecord ==
    <<
       48, 48, 52, 53, 56, 110, 97, 109, 32, 97, 50, 50, 48, 48, 49, 53, 55, 55, 117, 32,
       52, 53, 48, 48, 48, 48, 49, 48, 48, 49, 50, 48, 48, 48, 48, 48, 48, 48, 53, 48,
       48, 49, 55, 48, 48, 48, 49, 50, 48, 48, 56, 48, 48, 52, 49, 48, 48, 48, 50, 57,
       48, 51, 53, 48, 48, 49, 54, 48, 48, 48, 55, 48, 50, 52, 53, 48, 48, 53, 52, 48,
       48, 48, 56, 54, 50, 54, 48, 48, 48, 52, 49, 48, 48, 49, 52, 48, 51, 48, 48, 48,
       48, 51, 53, 48, 48, 49, 56, 49, 54, 53, 48, 48, 48, 51, 49, 48, 48, 50, 49, 54,
       55, 49, 48, 48, 48, 51, 51, 48, 48, 50, 52, 55, 57, 56, 56, 48, 48, 49, 51, 48,
       48, 50, 56, 48, 57, 48, 54, 48, 48, 48, 55, 48, 48, 50, 57, 51, 30, 48, 48, 48,
       48, 48, 48, 48, 48, 50, 45, 55, 30, 50, 48, 49, 50, 48, 56, 51, 49, 48, 57, 51,
       51, 52, 54, 46, 48, 30, 56, 50, 49, 50, 48, 50, 124, 49, 57, 51, 55, 32, 32, 32,
       32, 124, 124, 124, 124, 124, 124, 124, 32, 32, 124, 124, 124, 124, 32, 124, 48, 124, 124, 124,
       124, 101, 110, 103, 124, 100, 30, 48, 32, 31, 97, 111, 99, 109, 56, 51, 53, 52, 52, 56,
       48, 57, 30, 48, 48, 31, 97, 71, 97, 114, 100, 101, 110, 32, 101, 120, 104, 105, 98, 105,
       116, 105, 111, 110, 32, 47, 31, 99, 83, 97, 110, 32, 70, 114, 97, 110, 99, 105, 115, 99,
       111, 32, 77, 117, 115, 101, 117, 109, 32, 111, 102, 32, 65, 114, 116, 46, 30, 48, 32, 31,
       97, 83, 97, 110, 32, 70, 114, 97, 110, 99, 105, 115, 99, 111, 32, 58, 31, 98, 84, 104,
       101, 32, 77, 117, 115, 101, 117, 109, 44, 31, 99, 91, 49, 57, 51, 55, 93, 30, 32, 32,
       31, 97, 49, 32, 102, 111, 108, 100, 101, 100, 32, 115, 104, 101, 101, 116, 32, 40, 52, 112,
       46, 41, 32, 59, 31, 99, 49, 52, 32, 99, 109, 46, 30, 32, 48, 31, 97, 72, 111, 114,
       116, 105, 99, 117, 108, 116, 117, 114, 97, 108, 32, 101, 120, 104, 105, 98, 105, 116, 105, 111,
       110, 115, 46, 30, 50, 32, 31, 97, 83, 97, 110, 32, 70, 114, 97, 110, 99, 105, 115, 99,
       111, 32, 77, 117, 115, 101, 117, 109, 32, 111, 102, 32, 65, 114, 116, 46, 30, 32, 32, 31,
       97, 50, 48, 48, 50, 48, 54, 48, 56, 30, 32, 32, 31, 48, 77, 72, 30, 29 >>

\* Streams that are no sequence of records: a length below 26 and above
\* 99999, a length that is no number, no record terminator, a stream
\* that ends inside the length or inside the record.
Prefixes(r, lens) == { SubSeq(r, 1, k) : k \in lens }

BadStreams ==
    { Dec(25, 5) \o SubSeq(RecCtl, 6, Len(RecCtl)),
      Dec(10, 5) \o SubSeq(RecCtl, 6, Len(RecCtl)),
      <<58, 48, 48, 48, 48>> \o SubSeq(RecCtl, 6, Len(RecCtl)),
      <<48, 48, 48, 32, 52>> \o SubSeq(RecCtl, 6, Len(RecCtl)),
      MkRecord(LeaderA, LeaderB, <<>>, <<fieldTerminator>>, <<>>, <<0>>),
      MkRecord(LeaderA, LeaderB, DirEntry(T001, 3, 0), <<fieldTerminator>>,
               <<55, 56, 30>>, <<fieldTerminator>>),
      RecCtl \o <<48, 48>> }
        \cup Prefixes(RecCtl, {1, 4, 5, 6, 26, Len(RecCtl) - 1})
        \cup { RecMin \o p : p \in Prefixes(RecCtl, {3, 5, Len(RecCtl) - 1}) }

\* Streams of at most k records out of a few.
RECURSIVE RecordStreams(_)
RecordStreams(k) ==
    IF k = 0 THEN { <<>> }
    ELSE LET shorter == RecordStreams(k - 1)
         IN  shorter \cup { s \o r : s \in shorter, r \in {RecMin, RecCtl, RecTwo} }

\* Streams for Reader.offset: a record whose leader fails the validation
\* and a length that fails the framing, each before good records.
RecBadLeader ==
    FieldsRecord(SetByte(LeaderA, 1, 120), LeaderB, <<Fld(T001, <<55, 56, 30>>)>>)

OffsetStreams ==
    { RecBadLeader \o RecCtl,
      RecCtl \o RecBadLeader \o RecTwo,
      Dec(10, 5) \o RecCtl \o RecTwo }

Streams ==
    BodyRecords \cup PlainRecords \cup CorruptRecords \cup LeaderRecords
        \cup {FullRecord, RecBehind \o RecCtl}
        \cup OffsetStreams
        \cup BadStreams \cup RecordStreams(MaxRecords)

\* What a reader delivers at most in one Read: the reader of the tests
\* delivers all that is asked for, a buffered or a network reader less.
ChunkSizes == {ShortChunk, maxRecordSize}

\* ------------------------------------------------------- the state machine

VARIABLES
    stream,     \* the bytes of the input stream, from its start
    chunk,      \* what the stream's reader delivers at most in one Read
    pos,        \* how many bytes of the stream have been read
    validate,   \* Reader.validate
    offset,     \* Reader.offset
    mark,       \* pos when the latest Next was called
    rr,         \* what readRecord returned to the latest Next: [n, rec, e]
    rec,        \* the *MarcRecord the latest Next returned, or NilRecord
    err,        \* the error the latest Next returned, or "panic"
    framed,     \* the five length bytes of each record readRecord returned
    given,      \* the slice given to the latest NewMarcRecord
    field,      \* the VariableField the caller holds
    recovered,  \* the caller has recovered from a panic of a query of rec
    ret         \* the latest call: [op, tag, sf, index, out]

vars ==
    <<stream, chunk, pos, validate, offset, mark, rr, framed, given, rec, err,
      field, recovered, ret>>

NoCall == [op |-> "none", tag |-> <<>>, sf |-> 0, index |-> 0, out |-> [panic |-> FALSE]]

Call(op, tag, sf, index, out) ==
    [op |-> op, tag |-> tag, sf |-> sf, index |-> index, out |-> out]

\* NewReader(rdr, validate) on a stream none of which has been read.
Init ==
    /\ stream \in Streams
    /\ chunk \in ChunkSizes
    /\ validate \in BOOLEAN
    /\ pos = 0
    /\ offset = 0
    /\ mark = 0
    /\ rr = [n |-> 0, rec |-> NilSlice, e |-> "nil"]
    /\ framed = <<>>
    /\ given = NilSlice
    /\ rec = NilRecord
    /\ err = "nil"
    /\ field = EmptyField
    /\ recovered = FALSE
    /\ ret = NoCall

\* What Reader.Next does with what readRecord returned: the record and the
\* error it returns and the new Reader.offset (a uint64: no sum of record
\* lengths of a stream that fits in memory overflows it).
\* A faulty Reader.Next: the offset moves on only when NewMarcRecord has
\* returned a record.
NextOutcome_CountsReturned(r, v, off) ==
    IF r.e = "EOF" THEN [m |-> NilRecord, err |-> "nil", offset |-> off]
    ELSE IF r.e # "nil" THEN [m |-> NilRecord, err |-> r.e, offset |-> off]
    ELSE LET c == NewMarcRecord(r.rec, v, off)
         IN  [m |-> c.m, err |-> c.err,
              offset |-> IF c.m.nil THEN off ELSE off + r.n]

NextOutcome(r, v, off) ==
    IF r.e = "EOF" THEN [m |-> NilRecord, err |-> "nil", offset |-> off]
    ELSE IF r.e # "nil" THEN [m |-> NilRecord, err |-> r.e, offset |-> off]
    ELSE LET c == NewMarcRecord(r.rec, v, off)
         IN  [m |-> c.m, err |-> c.err, offset |-> off + r.n]

\* Reader.Next, in the runs that take their records from the Reader.  The
\* caller lets go of the field of the record before.
Next_ ==
    LET r == readRecord(stream, pos, chunk)
        o == NextOutcome(r, validate, offset)
    IN  /\ ret.op = "none" \/ ~(rr.e = "nil" /\ rr.rec.nil)
        /\ mark' = pos
        /\ pos' = r.pos
        /\ rr' = [n |-> r.n, rec |-> r.rec, e |-> r.e]
        /\ framed' = IF r.e = "nil"
                     THEN Append(framed, SubSeq(r.rec.bytes, 1, 5))
                     ELSE framed
        /\ given' = r.rec
        /\ rec' = o.m
        /\ err' = o.err
        /\ offset' = o.offset
        /\ field' = EmptyField
        /\ recovered' = FALSE
        /\ ret' = Call("Next", <<>>, 0, 0, [panic |-> o.err = "panic"])
        /\ UNCHANGED <<stream, chunk, validate>>

\* m, err = NewMarcRecord(buf[:L], validate, 0) by a caller that holds the
\* bytes of the stream in a buffer buf of its own and takes the record at
\* its head by the length L the record declares: the slice keeps the
\* capacity of buf, the bytes behind the record.  These runs make no use
\* of the Reader.
CallNewMarcRecord ==
    /\ ret.op = "none"
    /\ Len(stream) >= leaderSize + 2
    /\ LET L == decodeDecimal(SubSeq(stream, 1, 5))
           rawData == [nil |-> FALSE,
                       bytes |-> SubSeq(stream, 1, L),
                       spare |-> SubSeq(stream, L + 1, Len(stream))]
           c == NewMarcRecord(rawData, validate, 0)
       IN  /\ L >= leaderSize + 2
           /\ L <= Len(stream)
           /\ given' = rawData
           /\ rec' = c.m
           /\ err' = c.err
           /\ field' = EmptyField
           /\ recovered' = FALSE
           /\ ret' = Call("NewMarcRecord", <<>>, 0, 0, [panic |-> c.panic])
    /\ UNCHANGED <<stream, chunk, pos, validate, offset, mark, rr, framed>>

\* field = m.GetRawField(tag) on the record held; a panic assigns nothing,
\* and the caller goes on after it (a deferred recover).
CallGetRawField ==
    /\ ~rec.nil
    /\ \E tag \in QueryTags :
         LET r == GetRawField(rec, tag)
         IN  /\ ret' = Call("GetRawField", tag, 0, 0, r)
             /\ field' = IF r.panic THEN field ELSE r.field
             /\ recovered' = (recovered \/ r.panic)
    /\ UNCHANGED <<stream, chunk, pos, validate, offset, mark, rr, framed, given, rec, err>>

\* s, err = m.GetControlField(tag).
CallGetControlField ==
    /\ ~rec.nil
    /\ \E tag \in QueryTags :
         LET r == GetControlField(rec, tag)
         IN  /\ ret' = Call("GetControlField", tag, 0, 0, r)
             /\ recovered' = (recovered \/ r.panic)
    /\ UNCHANGED <<stream, chunk, pos, validate, offset, mark, rr, framed, given, rec, err, field>>

\* field, err = m.GetDataField(tag).
CallGetDataField ==
    /\ ~rec.nil
    /\ \E tag \in QueryTags :
         LET r == GetDataField(rec, tag)
         IN  /\ ret' = Call("GetDataField", tag, 0, 0, r)
             /\ field' = IF r.panic THEN field ELSE r.field
             /\ recovered' = (recovered \/ r.panic)
    /\ UNCHANGED <<stream, chunk, pos, validate, offset, mark, rr, framed, given, rec, err>>

\* field.GetNthRawSubfield(subfield, index) on the field held.
CallGetNthRawSubfield ==
    /\ ~rec.nil
    /\ \E sf \in SubfieldCodes, index \in 0..MaxIndex :
         LET r == GetNthRawSubfield(field, sf, index)
         IN  /\ ret' = Call("GetNthRawSubfield", field.Tag, sf, index, r)
             /\ recovered' = (recovered \/ r.panic)
    /\ UNCHANGED <<stream, chunk, pos, validate, offset, mark, rr, framed, given, rec, err, field>>

\* field.GetNthSubfield(subfield, index) on the field held.
CallGetNthSubfield ==
    /\ ~rec.nil
    /\ \E sf \in SubfieldCodes, index \in 0..MaxIndex :
         LET r == GetNthSubfield(field, sf, index)
         IN  /\ ret' = Call("GetNthSubfield", field.Tag, sf, index, r)
             /\ recovered' = (recovered \/ r.panic)
    /\ UNCHANGED <<stream, chunk, pos, validate, offset, mark, rr, framed, given, rec, err, field>>

Next ==
    \/ Next_
    \/ CallNewMarcRecord
    \/ CallGetRawField
    \/ CallGetControlField
    \/ CallGetDataField
    \/ CallGetNthRawSubfield
    \/ CallGetNthSubfield

Spec == Init /\ [][Next]_vars

\* ------------------------------------------------------------- the framer

\* The value of a string of decimal digits.
IsDigits(bs) == \A i \in 1..Len(bs) : bs[i] \in 48..57

RECURSIVE DecValue(_)
DecValue(bs) ==
    IF bs = <<>> THEN 0
    ELSE 10 * DecValue(SubSeq(bs, 1, Len(bs) - 1)) + (bs[Len(bs)] - 48)

\* Next has been called (readRecord returns a record or an error), and
\* the stream held these bytes when the latest call began.
Called == ~(rr.e = "nil" /\ rr.rec.nil)

Remaining == Len(stream) - mark

LengthBytes == SubSeq(stream, mark + 1, mark + 5)

\* A well-formed record is at the head of what the latest Next began with.
WellFormedAtMark ==
    /\ Remaining >= 5
    /\ IsDigits(LengthBytes)
    /\ DecValue(LengthBytes) >= 26
    /\ DecValue(LengthBytes) <= 99999
    /\ Remaining >= DecValue(LengthBytes)
    /\ stream[mark + DecValue(LengthBytes)] = recordTerminator

RoundTrip ==
    /\ rr.e = "nil"
    /\ rr.n = DecValue(LengthBytes)
    /\ ~rr.rec.nil
    /\ rr.rec.bytes = SubSeq(stream, mark + 1, mark + DecValue(LengthBytes))
    /\ pos = mark + DecValue(LengthBytes)

\* C1: for every well-formed record at the head of the stream (five digits
\* of its own length L, 26 <= L <= 99999, last byte 0x1D), readRecord
\* returns no error, the length L, and the L bytes it consumed.
C1_FramerRoundTrip == (Called /\ WellFormedAtMark) => RoundTrip

\* The same of a reader that delivers all that a Read asks for while
\* bytes remain, as strings.Reader does: there the round trip holds.
FullReadsRoundTrip ==
    (Called /\ WellFormedAtMark /\ chunk >= maxRecordSize) => RoundTrip

FullReadsRoundTripWitness ==
    Called /\ WellFormedAtMark /\ chunk >= maxRecordSize /\ mark > 0 /\ rr.n > 26

\* C2: the end of the stream met within the five length bytes is a normal
\* end (Next returns no record and no error); met after the length is known
\* (fewer than L-5 bytes remain, none included) it is an error, never a
\* normal end and never a record.
C2_EndOfStream ==
    Called =>
        /\ (Remaining < 5) => (rec.nil /\ err = "nil")
        /\ ( /\ Remaining >= 5
             /\ decodeDecimal(LengthBytes) >= 26
             /\ decodeDecimal(LengthBytes) <= 99999
             /\ Remaining < decodeDecimal(LengthBytes) )
               => (rec.nil /\ err # "nil")

\* C3: readRecord fails with errInvalidLength whenever the length decoded
\* from the first five bytes is below 26 or above 99999, and with
\* errNoRecordTerminator whenever the length L is in range and the last of
\* the L bytes is not 0x1D; both times it returns length 0 and no bytes.
C3_FramingRejection ==
    (Called /\ Remaining >= 5) =>
        LET L == decodeDecimal(LengthBytes)
        IN  /\ (L < 26 \/ L > 99999)
                => (rr.e = "errInvalidLength" /\ rr.n = 0 /\ rr.rec.nil)
            /\ (L >= 26 /\ L <= 99999 /\ Remaining >= L
                  /\ stream[mark + L] # recordTerminator)
                => (rr.e = "errNoRecordTerminator" /\ rr.n = 0 /\ rr.rec.nil)

\* The same of a reader that delivers all that a Read asks for.
FullReadsFramingRejection == (chunk >= maxRecordSize) => C3_FramingRejection

\* ---------------------------------------------------------- the subfields

\* The index of the first delimiter or field terminator of rv at or after
\* index i (from 1), or 0 when there is none.
RECURSIVE DataEnd(_, _)
DataEnd(rv, i) ==
    IF i > Len(rv) THEN 0
    ELSE IF rv[i] = delimiter \/ rv[i] = fieldTerminator THEN i
    ELSE DataEnd(rv, i + 1)

\* The single pass over rv from index i (from 1): on each delimiter the
\* byte after it is compared with code; the data of the n-th run (from 0)
\* that carries code, or the not-found signal when the field terminator or
\* the end of the bytes comes first.
RECURSIVE NthRunFrom(_, _, _, _)
NthRunFrom(rv, code, n, i) ==
    IF i > Len(rv) THEN NilSlice
    ELSE IF rv[i] = fieldTerminator THEN NilSlice
    ELSE IF rv[i] = delimiter /\ i + 1 > Len(rv) THEN NilSlice
    ELSE IF rv[i] = delimiter /\ rv[i + 1] = code
    THEN IF DataEnd(rv, i + 2) = 0 THEN NilSlice
         ELSE IF n = 0 THEN Slice(SubSeq(rv, i + 2, DataEnd(rv, i + 2) - 1))
         ELSE NthRunFrom(rv, code, n - 1, DataEnd(rv, i + 2))
    ELSE NthRunFrom(rv, code, n, i + 1)

\* A body has subfield runs when a delimiter follows its two indicators.
NthRun(rv, code, n) ==
    IF Len(rv) < 3 \/ rv[3] # delimiter THEN NilSlice
    ELSE NthRunFrom(rv, code, n, 3)

\* The latest call was a subfield query of an occurrence the field has.
OnOccurrence(op) == ret.op = op /\ ret.index < ValueCount(field)

Occurrence == field.rawData[ret.index + 1]

\* C4: GetNthRawSubfield returns the data bytes of the first run (the
\* code has no parameter n: it is 0) whose code is the one asked for, and
\* the not-found signal (nil) when no run carries the code, when the body
\* has no runs, or when the bytes end before a terminator.
C4_NthRawSubfield ==
    OnOccurrence("GetNthRawSubfield") =>
        /\ ~ret.out.panic
        /\ ret.out.raw = NthRun(Occurrence, ret.sf, 0)

\* The same of the occurrences of three bytes and more that hold a field
\* terminator after the indicators: there the claim holds of the code.
HasTerminator(rv) == \E k \in 3..Len(rv) : rv[k] = fieldTerminator

TerminatedNthRawSubfield ==
    (OnOccurrence("GetNthRawSubfield") /\ HasTerminator(Occurrence)) =>
        /\ ~ret.out.panic
        /\ ret.out.raw = NthRun(Occurrence, ret.sf, 0)

TerminatedNthRawSubfieldWitness ==
    /\ OnOccurrence("GetNthRawSubfield")
    /\ HasTerminator(Occurrence)
    /\ ~ret.out.raw.nil
    /\ Len(ret.out.raw.bytes) > 0
    /\ Occurrence[4] # ret.sf

\* ------------------------------------------------------------- absence

\* A run of rv carries the code.
CodeOccurs(rv, code) ==
    \E k \in 3..(Len(rv) - 1) : rv[k] = delimiter /\ rv[k + 1] = code

\* C5: a query for what a constructed record does not hold is no error:
\* GetRawField of a tag that the directory does not hold returns a field
\* with no occurrence, GetControlField of such a control tag returns ""
\* and no error, GetNthSubfield of a code that does not occur in the
\* occurrence returns "".
C5_AbsenceIsNoError ==
    ~rec.nil =>
        /\ (ret.op = "GetRawField" /\ ret.tag \notin DOMAIN rec.Directory)
              => (~ret.out.panic /\ ValueCount(ret.out.field) = 0)
        /\ (ret.op = "GetControlField" /\ IsControlFieldTag(ret.tag)
                /\ ret.tag \notin DOMAIN rec.Directory)
              => (~ret.out.panic /\ ret.out.s = <<>> /\ ret.out.err = "nil")
        /\ (OnOccurrence("GetNthSubfield") /\ ~CodeOccurs(Occurrence, ret.sf))
              => (~ret.out.panic /\ ret.out.s = <<>>)

\* The same without the occurrences that are shorter than three bytes or
\* hold no field terminator.
TerminatedAbsenceIsNoError ==
    ~rec.nil =>
        /\ (ret.op = "GetRawField" /\ ret.tag \notin DOMAIN rec.Directory)
              => (~ret.out.panic /\ ValueCount(ret.out.field) = 0)
        /\ (ret.op = "GetControlField" /\ IsControlFieldTag(ret.tag)
                /\ ret.tag \notin DOMAIN rec.Directory)
              => (~ret.out.panic /\ ret.out.s = <<>> /\ ret.out.err = "nil")
        /\ (OnOccurrence("GetNthSubfield") /\ ~CodeOccurs(Occurrence, ret.sf)
                /\ HasTerminator(Occurrence))
              => (~ret.out.panic /\ ret.out.s = <<>>)

\* ------------------------------------------------- control and data fields

DirectoryHas(tag) == tag \in DOMAIN rec.Directory

\* Every byte range that the directory holds for the tag lies inside
\* RawRecord.
InRange(m, loc) == loc.offset + loc.length <= Len(m.RawRecord.bytes)

AllInRange(m, tag) ==
    \A i \in 1..Len(m.Directory[tag]) : InRange(m, m.Directory[tag][i])

OwnsOutOfRange(m, tag) ==
    /\ tag \in DOMAIN m.Directory
    /\ ~AllInRange(m, tag)

Repeated(tag) == DirectoryHas(tag) /\ Len(rec.Directory[tag]) > 1

\* The tag begins with the two characters "00".
StartsWith00(tag) == SubSeq(tag, 1, 2) = <<48, 48>>

DataFieldAsClaimed ==
    ret.op = "GetDataField" =>
        /\ (ret.out.err = "not a data field") <=> StartsWith00(ret.tag)
        /\ ~StartsWith00(ret.tag) =>
              /\ ret.out.panic = GetRawField(rec, ret.tag).panic
              /\ ret.out.field = GetRawField(rec, ret.tag).field

\* C6: GetControlField fails with "not a valid control field" exactly
\* when the tag does not start with "00" and with "too many instances"
\* when a control tag has more than one occurrence in the directory;
\* GetDataField fails with "not a data field" exactly when the tag starts
\* with "00" and returns what GetRawField returns otherwise.
C6_TagMismatch ==
    ~rec.nil =>
        /\ ret.op = "GetControlField" =>
              /\ (ret.out.err = "not a valid control field")
                     <=> ~StartsWith00(ret.tag)
              /\ (StartsWith00(ret.tag) /\ Repeated(ret.tag))
                     => ret.out.err = "too many instances of control field"
        /\ DataFieldAsClaimed

\* Every byte range that the directory holds for the tag lies inside the
\* array of RawRecord: m.RawRecord[start:end] does not panic.
AllInCapacity(m, tag) ==
    \A i \in 1..Len(m.Directory[tag]) :
        m.Directory[tag][i].offset + m.Directory[tag][i].length
            <= Len(Array(m.RawRecord))

\* The same of the tags whose ranges GetRawField can slice: there the
\* repeated control tag is reported as C6 says.
InCapacityTagMismatch ==
    ~rec.nil =>
        /\ ret.op = "GetControlField" =>
              /\ (ret.out.err = "not a valid control field")
                     <=> ~StartsWith00(ret.tag)
              /\ (StartsWith00(ret.tag) /\ Repeated(ret.tag)
                      /\ AllInCapacity(rec, ret.tag))
                     => ret.out.err = "too many instances of control field"
        /\ DataFieldAsClaimed

InCapacityTagMismatchWitness ==
    /\ ~rec.nil
    /\ ret.op = "GetControlField"
    /\ Repeated(ret.tag)
    /\ ret.out.err = "too many instances of control field"

\* -------------------------------------------------------------- the leader

CheckedPositions == {5, 6, 7, 8, 9, 10, 11} \cup {17, 18, 19, 20, 21, 22, 23}

AllowedAt(p) ==
    marc21LeaderValues[CHOOSE i \in 1..Len(marc21LeaderValues) :
                           marc21LeaderValues[i].offset = p].values

LeaderBroken(raw) == \E p \in CheckedPositions : raw[p + 1] \notin AllowedAt(p)

\* The bytes that the latest NewMarcRecord was given, by Next or by the
\* caller.
Framed == ~given.nil

Raw == given.bytes

\* C7: leader validation is advisory.  With validation asked for, the
\* construction fails with errInvalidLeader exactly when a byte at one of
\* the positions 5-11 and 17-23 is outside its allowed set; without, it
\* never fails so, and Status, Type, BibLevel, CharacterEncoding,
\* EncodingLevel, CatalogingForm and MultipartLevel of the record are the
\* bytes at positions 5, 6, 7, 8, 17, 18, 19, whatever they are.
C7_LeaderValidation ==
    Framed =>
        /\ { marc21LeaderValues[i].offset : i \in 1..Len(marc21LeaderValues) }
               = CheckedPositions
        /\ validate => ((err = "errInvalidLeader") <=> LeaderBroken(Raw))
        /\ ~validate => err # "errInvalidLeader"
        /\ (~validate /\ ~rec.nil) =>
              /\ rec.Status = Raw[6]
              /\ rec.Type = Raw[7]
              /\ rec.BibLevel = Raw[8]
              /\ rec.CharacterEncoding = Raw[9]
              /\ rec.EncodingLevel = Raw[18]
              /\ rec.CatalogingForm = Raw[19]
              /\ rec.MultipartLevel = Raw[20]

C7_Witness == Framed /\ ~validate /\ ~rec.nil /\ LeaderBroken(Raw)

C7_RejectedWitness == Framed /\ validate /\ err = "errInvalidLeader"

\* ----------------------------------------------------------- the directory

\* The entries of the directory of raw, read from the bytes: entry j
\* (from 0) is the 12 bytes from offset 24 + 12j, and the directory ends
\* at the first of these offsets that holds a field terminator.
EntryAt(j) == leaderSize + 12 * j

DirectoryEnds(raw, k) ==
    /\ EntryAt(k) < Len(raw)
    /\ raw[EntryAt(k) + 1] = fieldTerminator
    /\ \A j \in 0..(k - 1) : raw[EntryAt(j) + 1] # fieldTerminator

HasDirectoryEnd(raw) == \E k \in 0..(Len(raw) \div 12) : DirectoryEnds(raw, k)

EntryCount(raw) == CHOOSE k \in 0..(Len(raw) \div 12) : DirectoryEnds(raw, k)

EntryTag(raw, j) == SubSeq(raw, EntryAt(j) + 1, EntryAt(j) + 3)

EntryLengthBytes(raw, j) == SubSeq(raw, EntryAt(j) + 4, EntryAt(j) + 7)

EntryStartBytes(raw, j) == SubSeq(raw, EntryAt(j) + 8, EntryAt(j) + 12)

BaseBytes(raw) == SubSeq(raw, 13, 17)

NumbersAreDigits(raw) ==
    /\ IsDigits(BaseBytes(raw))
    /\ \A j \in 0..(EntryCount(raw) - 1) :
          IsDigits(EntryLengthBytes(raw, j)) /\ IsDigits(EntryStartBytes(raw, j))

\* The pair of entry j: (baseAddress + startOffset, length).
EntryPair(raw, j) ==
    [offset |-> DecValue(BaseBytes(raw)) + DecValue(EntryStartBytes(raw, j)),
     length |-> DecValue(EntryLengthBytes(raw, j))]

\* The entries that carry the tag, in directory order, and their pairs.
EntriesOf(raw, tag) ==
    LET Carries(j) == EntryTag(raw, j) = tag
    IN  SelectSeq([i \in 1..EntryCount(raw) |-> i - 1], Carries)

PairsOf(raw, tag) ==
    [i \in 1..Len(EntriesOf(raw, tag)) |-> EntryPair(raw, EntriesOf(raw, tag)[i])]

DistinctTags(raw) == { EntryTag(raw, j) : j \in 0..(EntryCount(raw) - 1) }

\* C8: the directory of a record is a mapping whose keys are the distinct
\* tags of the 12-byte entries scanned from offset 24 up to the first
\* field terminator at an entry boundary, and whose value for a tag is, in
\* directory order, one pair (baseAddress + startOffset, length) for each
\* entry with the tag; 11 distinct tags make 11 keys.
C8_DirectoryDecoding ==
    ~rec.nil =>
        /\ HasDirectoryEnd(rec.RawRecord.bytes)
        /\ DOMAIN rec.Directory = DistinctTags(rec.RawRecord.bytes)
        /\ NumbersAreDigits(rec.RawRecord.bytes) =>
              \A tag \in DOMAIN rec.Directory :
                  rec.Directory[tag] = PairsOf(rec.RawRecord.bytes, tag)
        /\ (Cardinality(DistinctTags(rec.RawRecord.bytes)) = 11)
              => (Cardinality(DOMAIN rec.Directory) = 11)

C8_Witness ==
    /\ ~rec.nil
    /\ NumbersAreDigits(rec.RawRecord.bytes)
    /\ EntryCount(rec.RawRecord.bytes) = 11
    /\ Cardinality(DOMAIN rec.Directory) = 11

C8_RepeatedTagWitness ==
    /\ ~rec.nil
    /\ \E tag \in DOMAIN rec.Directory : Len(rec.Directory[tag]) = 2

\* A byte range inside raw that ends in a field terminator or, at the end
\* of the record, in the record terminator.
EndsField(raw, loc) ==
    /\ loc.length >= 1
    /\ loc.offset + loc.length <= Len(raw)
    /\ \/ raw[loc.offset + loc.length] = fieldTerminator
       \/ /\ raw[loc.offset + loc.length] = recordTerminator
          /\ loc.offset + loc.length = Len(raw)

AllPairsEndFields ==
    \A tag \in DOMAIN rec.Directory :
        \A i \in 1..Len(rec.Directory[tag]) :
            EndsField(rec.RawRecord.bytes, rec.Directory[tag][i])

\* C9 as claimed: in every constructed record every pair of the directory
\* denotes a byte range inside RawRecord that ends in a field terminator
\* or, for the last field, the record terminator.
C9_DirectoryInvariantAsClaimed == ~rec.nil => AllPairsEndFields

\* The directory entries of raw, read as decimal numbers, each denote such
\* a range.
EntriesEndFields(raw) ==
    /\ NumbersAreDigits(raw)
    /\ \A j \in 0..(EntryCount(raw) - 1) : EndsField(raw, EntryPair(raw, j))

\* C9, amended: the invariant holds of the records whose directory
\* entries each denote such a range; the construction does not check the
\* entries, and it succeeds on the others all the same.
C9_DirectoryInvariant ==
    (~rec.nil /\ EntriesEndFields(rec.RawRecord.bytes)) => AllPairsEndFields

C9_Witness ==
    /\ ~rec.nil
    /\ EntriesEndFields(rec.RawRecord.bytes)
    /\ EntryCount(rec.RawRecord.bytes) >= 3

\* ------------------------------------------------------ corrupt directories

RecordQueries == {"GetRawField", "GetControlField", "GetDataField"}

\* The latest query failed in m.RawRecord[start:end] of GetRawField.
RangeFailure ==
    \/ ret.op = "GetRawField" /\ ret.out.panic
    \/ ret.op = "GetDataField" /\ ret.out.panic
    \/ ret.op = "GetControlField" /\ ret.out.err = "panic"

\* The construction does not look at the ranges: it succeeds whenever the
\* leader passes (or is not checked) and the directory ends.
ConstructedWhateverTheRanges ==
    (Framed /\ (validate => ~LeaderBroken(Raw)) /\ HasDirectoryEnd(Raw))
        => (~rec.nil /\ err = "nil" /\ rec.RawRecord = given)

\* A range outside RawRecord fails the queries of the tag that owns it,
\* and no other.
FailsTheOwningTag ==
    (~rec.nil /\ ret.op \in RecordQueries) =>
        (RangeFailure <=>
            /\ OwnsOutOfRange(rec, ret.tag)
            /\ ret.op = "GetControlField" => StartsWith00(ret.tag)
            /\ ret.op = "GetDataField" => ~StartsWith00(ret.tag))

\* A query leaves the record as it is, and with it what every query
\* returns.
QueryKeepsRecord ==
    (ret'.op \notin {"Next", "NewMarcRecord"}) =>
        /\ rec' = rec
        /\ \A tag \in QueryTags : GetRawField(rec', tag) = GetRawField(rec, tag)

\* C10: a record with a directory entry that denotes a range outside
\* RawRecord is constructed all the same; the failure comes with the
\* GetRawField, GetControlField or GetDataField of the tag that owns the
\* entry, and after it the record is unchanged and the queries of the
\* other tags return what they returned before.
C10_LazyCorruptDirectory ==
    /\ [](ConstructedWhateverTheRanges /\ FailsTheOwningTag)
    /\ [][QueryKeepsRecord]_vars

\* What the code does: the query fails, with a run-time panic, when a
\* range of the tag ends beyond the capacity of RawRecord, and returns the
\* bytes behind the record when it ends within it.
FailsBeyondCapacity ==
    (~rec.nil /\ ret.op \in RecordQueries) =>
        (RangeFailure <=>
            /\ ret.tag \in DOMAIN rec.Directory
            /\ ~AllInCapacity(rec, ret.tag)
            /\ ret.op = "GetControlField" => StartsWith00(ret.tag)
            /\ ret.op = "GetDataField" => ~StartsWith00(ret.tag))

LazyBeyondCapacity ==
    /\ [](ConstructedWhateverTheRanges /\ FailsBeyondCapacity)
    /\ [][QueryKeepsRecord]_vars

\* A query has returned bytes from behind the record.
ReadsBehindTheRecord ==
    /\ ~rec.nil
    /\ ret.op = "GetRawField"
    /\ ~ret.out.panic
    /\ OwnsOutOfRange(rec, ret.tag)

\* The query of the tag that owns a range beyond the capacity has failed,
\* and after it the query of another tag has returned its occurrence.
RecoveredQueryWitness ==
    /\ ~rec.nil
    /\ recovered
    /\ ret.op = "GetRawField"
    /\ ~ret.out.panic
    /\ ValueCount(ret.out.field) = 1

\* ----------------------------------------------------- the stream offset

\* The sum of the lengths that the records of ls declare.
RECURSIVE SumOfLengths(_)
SumOfLengths(ls) ==
    IF ls = <<>> THEN 0
    ELSE DecValue(ls[Len(ls)]) + SumOfLengths(SubSeq(ls, 1, Len(ls) - 1))

\* The records framed before the one that the latest Next framed.
FramedBefore == SubSeq(framed, 1, Len(framed) - 1)

\* The record held came from Next, which framed it last, and its Offset is
\* the sum of the lengths declared by the records framed before it; the
\* offset of the Reader is the sum over all the records framed.
OffsetIsSumOfLengths ==
    /\ \A i \in 1..Len(framed) : IsDigits(framed[i])
    /\ offset = SumOfLengths(framed)
    /\ (Called /\ ~rec.nil) =>
          /\ Len(framed) >= 1
          /\ rec.Offset = SumOfLengths(FramedBefore)

\* A Next that fails the framing or meets the end of the stream leaves
\* the offset of the Reader as it was; one that frames a record moves it
\* on by the length the record declares, whatever NewMarcRecord returns.
NextMovesOffset ==
    (ret'.op = "Next") =>
        /\ rr'.e # "nil" => offset' = offset
        /\ rr'.e = "nil" =>
              offset' = offset + DecValue(SubSeq(stream, pos + 1, pos + 5))

\* C11: over any sequence of calls of Next, the Offset of each record
\* returned is the sum of the declared lengths of the records that the
\* Reader framed before it (0 for the first), those rejected by the
\* leader validation included; a Next that fails the framing or reports
\* the end of the stream leaves the offset of the Reader unchanged.
C11_OffsetTracking ==
    /\ []OffsetIsSumOfLengths
    /\ [][NextMovesOffset]_vars

\* A record has been returned after a record that the leader validation
\* rejected, with the length of that record in its Offset.
C11_Witness ==
    /\ Called
    /\ ~rec.nil
    /\ validate
    /\ Len(framed) >= 2
    /\ LeaderBroken(SubSeq(stream, mark - DecValue(framed[Len(framed) - 1]) + 1, mark))
    /\ rec.Offset = SumOfLengths(FramedBefore)
    /\ rec.Offset > 0

\* A record has been returned after a Next that failed the framing: its
\* Offset is 0, five bytes into the stream.
C11_AfterFailureWitness ==
    /\ Called
    /\ ~rec.nil
    /\ Len(framed) = 1
    /\ mark > 0
    /\ rec.Offset = 0

====

